---- MODULE Spec2Model ----
(***************************************************************************)
(* State-machine model of tabnews_cli.py: the TabNewsAPI content client    *)
(* and the TabNewsUI view controller (feed / content / comments), with its *)
(* key handlers, its three display buffers and the text pagination.        *)
(*                                                                         *)
(* Text.  A Python string is modelled by the list of its lines (what       *)
(* str.split('\n') returns), each line a sequence of words; a word is a    *)
(* record [t |-> token, n |-> number of characters].  The empty string is  *)
(* therefore the single empty line << <<>> >>.  Words on one line are      *)
(* separated by one space.                                                 *)
(***************************************************************************)
EXTENDS Integers, Sequences, FiniteSets, TLC

\* ------------------------------------------------------------------ bounds
\* Longest feed list the server returns in the model (the code asks for 10);
\* the server owns the items 1 .. MaxFeedLen.
MaxFeedLen == 2
\* Highest feed page number the model visits (the code has no upper limit).
MaxPage == 2

\* Texts handed to wrap_text and split_into_pages on their own: at most
\* MaxWords tokens of 1 .. MaxWordLen characters, wrapped to widths
\* 1 .. MaxWidth and paged to heights 1 .. MaxHeight.
MaxWords == 3
MaxWordLen == 3
MaxWidth == 3
MaxHeight == 3

\* ------------------------------------------------------- program constants
terminal_width == 80
terminal_height == 24
WrapMargin == 4
PageMargin == 6
HTTP_OK == 200
FirstPage == 1
PerPage == 10

\* ---------------------------------------------------------------- strings
W(t, n) == [t |-> t, n |-> n, v |-> 0]

\* A word that prints the number v (a page number, a user id) in n characters.
Num(t, n, v) == [t |-> t, n |-> n, v |-> v]

\* The empty Python string "".
EmptyStr == << <<>> >>

\* A one-line string made of the given words.
Line(words) == << words >>

\* A one-line literal of n characters that is never wrapped.
Lit(t, n) == << << W(t, n) >> >>

\* Python's None / an absent JSON value is the empty sequence; a present value
\* v is << v >>.
None == << >>
Some(v) == << v >>

RECURSIVE SumLen(_)
SumLen(ws) == IF ws = << >> THEN 0 ELSE Head(ws).n + SumLen(Tail(ws))

\* len() of one line: its words and the single spaces between them.
LineLen(l) == IF l = << >> THEN 0 ELSE SumLen(l) + (Len(l) - 1)

\* "\n".join(parts): the lines of all parts in order; joining no parts gives "".
RECURSIVE Concat(_)
Concat(parts) == IF parts = << >> THEN << >> ELSE Head(parts) \o Concat(Tail(parts))

Join(parts) == IF parts = << >> THEN EmptyStr ELSE Concat(parts)

\* f"{prefix}{s}": the prefix words go in front of the first line of s.
Prefixed(prefix, s) == << prefix \o Head(s) >> \o Tail(s)

\* ------------------------------------------------------ textwrap.fill(text)
\* The chunks textwrap works on: the words of the text with a one-character
\* whitespace chunk between neighbours.  text is the sequence of its words.
Space == W(" ", 1)

RECURSIVE Chunks(_)
Chunks(text) ==
    IF text = << >> THEN << >>
    ELSE IF Len(text) = 1 THEN text
    ELSE << Head(text), Space >> \o Chunks(Tail(text))

\* The inner loop of TextWrapper._wrap_chunks: move chunks onto the current
\* line while they fit in width.
RECURSIVE TakeFit(_, _, _, _)
TakeFit(chunks, cur_line, cur_len, width) ==
    IF chunks # << >> /\ cur_len + Head(chunks).n <= width
    THEN TakeFit(Tail(chunks), Append(cur_line, Head(chunks)),
                 cur_len + Head(chunks).n, width)
    ELSE [chunks |-> chunks, cur_line |-> cur_line, cur_len |-> cur_len]

\* TextWrapper._handle_long_word with break_long_words=True: the part of the
\* long chunk that fits in the space left goes on the current line (an empty
\* part when no space is left), the rest stays at the front of the chunks.
BreakWord(st, chunk, space_left) ==
    [chunks |-> IF chunk.n > space_left
                THEN << [chunk EXCEPT !.n = chunk.n - space_left] >>
                     \o Tail(st.chunks)
                ELSE Tail(st.chunks),
     cur_line |-> Append(st.cur_line, [chunk EXCEPT !.n = space_left]),
     cur_len |-> st.cur_len + space_left]

\* _handle_long_word with break_long_words=False: a long chunk goes whole on
\* an empty line.
HandleLongWord_Whole(st, width) ==
    IF st.cur_line = << >>
    THEN [chunks |-> Tail(st.chunks), cur_line |-> << Head(st.chunks) >>,
          cur_len |-> Head(st.chunks).n]
    ELSE st

HandleLongWord(st, width) ==
    BreakWord(st, Head(st.chunks), IF width < 1 THEN 1 ELSE width - st.cur_len)

\* ''.join(cur_line) as the words between its spaces: a line that ends with
\* a space ends with an empty word, as str.split(' ') has it.
EmptyWord == W("", 0)

DropSpaces(cur_line) ==
    IF cur_line[Len(cur_line)] = Space
    THEN Append(SelectSeq(cur_line, LAMBDA c : c # Space), EmptyWord)
    ELSE SelectSeq(cur_line, LAMBDA c : c # Space)

\* The end of one iteration of the outer loop of _wrap_chunks: the last chunk
\* of the line is dropped when it is whitespace or empty (one chunk only),
\* and a line that is not empty is emitted.
StripLine(cur_line) ==
    IF cur_line # << >> /\ (cur_line[Len(cur_line)] = Space \/
                            cur_line[Len(cur_line)].n = 0)
    THEN SubSeq(cur_line, 1, Len(cur_line) - 1)
    ELSE cur_line

EmitLine(cur_line, lines) ==
    IF cur_line # << >> THEN Append(lines, DropSpaces(cur_line)) ELSE lines

\* TextWrapper._wrap_chunks: one output line per iteration of the outer loop.
RECURSIVE WrapChunks(_, _, _)
AfterLine(st, lines, width) ==
    WrapChunks(st.chunks, EmitLine(StripLine(st.cur_line), lines), width)

AfterFit(fit, lines, width) ==
    IF fit.chunks # << >> /\ Head(fit.chunks).n > width
    THEN AfterLine(HandleLongWord(fit, width), lines, width)
    ELSE AfterLine(fit, lines, width)

WrapChunks(chunks, lines, width) ==
    IF chunks = << >> THEN lines
    ELSE IF lines # << >> /\ Head(chunks) = Space
         THEN AfterFit(TakeFit(Tail(chunks), << >>, 0, width), lines, width)
         ELSE AfterFit(TakeFit(chunks, << >>, 0, width), lines, width)

NonEmpty(lines) == IF lines = << >> THEN EmptyStr ELSE lines

\* TabNewsUI.wrap_text: textwrap.fill(text, width) treats a newline of text as
\* whitespace and joins the wrapped lines with "\n"; a text that wraps to no
\* line at all gives "".
wrap_text(text, width) == NonEmpty(WrapChunks(Chunks(Concat(text)), << >>, width))

\* ------------------------------------------------------- split_into_pages
\* '\n'.join(current_page) for a list of single lines.
JoinLines(ls) == IF ls = << >> THEN EmptyStr ELSE ls

\* The loop with the test of line 273 written as current_height > height.
RECURSIVE PagesLoop_Late(_, _, _, _)
PagesLoop_Late(lines, pages, current_page, height) ==
    IF lines = << >>
    THEN IF current_page # << >> THEN Append(pages, JoinLines(current_page))
         ELSE pages
    ELSE IF Len(current_page) > height
         THEN PagesLoop_Late(Tail(lines), Append(pages, JoinLines(current_page)),
                             << Head(lines) >>, height)
         ELSE PagesLoop_Late(Tail(lines), pages,
                             Append(current_page, Head(lines)), height)

\* The loop with lines 277-278 in an else branch: the line that meets a full
\* page is not carried over to the next page.
RECURSIVE PagesLoop_DropsLine(_, _, _, _)
PagesLoop_DropsLine(lines, pages, current_page, height) ==
    IF lines = << >>
    THEN IF current_page # << >> THEN Append(pages, JoinLines(current_page))
         ELSE pages
    ELSE IF Len(current_page) >= height
         THEN PagesLoop_DropsLine(Tail(lines),
                                  Append(pages, JoinLines(current_page)),
                                  << >>, height)
         ELSE PagesLoop_DropsLine(Tail(lines), pages,
                                  Append(current_page, Head(lines)), height)

\* The loop of split_into_pages over the wrapped lines.
RECURSIVE PagesLoop(_, _, _, _)
PagesLoop(lines, pages, current_page, height) ==
    IF lines = << >>
    THEN IF current_page # << >> THEN Append(pages, JoinLines(current_page))
         ELSE pages
    ELSE IF Len(current_page) >= height
         THEN PagesLoop(Tail(lines), Append(pages, JoinLines(current_page)),
                        << Head(lines) >>, height)
         ELSE PagesLoop(Tail(lines), pages,
                        Append(current_page, Head(lines)), height)

\* TabNewsUI.split_into_pages: each page is the string of its lines.
split_into_pages(text, width, height) ==
    PagesLoop(wrap_text(text, width), << >>, << >>, height)

\* ------------------------------------------------------------ TabNewsAPI
\* An HTTP exchange as the client sees it: conn is FALSE when the transport
\* itself fails (session.get raises), status_code and the optional "message"
\* field of an error body otherwise, and data is the JSON of a 200 response.
\* json tells whether response.json() can decode the body.
Response(conn, status_code, message, data) ==
    [conn |-> conn, status_code |-> status_code, message |-> message,
     data |-> data, json |-> TRUE]

\* A response whose body is not JSON (an HTML error page of a proxy).
NotJson(status_code) ==
    [conn |-> TRUE, status_code |-> status_code, message |-> None,
     data |-> << >>, json |-> FALSE]

\* "({response.status_code}):" in the error text.
StatusWord(status_code) == Num("(#):", 6, status_code)

UnknownError == Line(<< W("Unknown", 7), W("error", 5) >>)
ConnectionError == Line(<< W("Connection", 10), W("refused", 7) >>)
IndexError == Line(<< W("list", 4), W("index", 5), W("out", 3), W("of", 2),
                      W("range", 5) >>)
JSONDecodeError == Line(<< W("Expecting", 9), W("value:", 6) >>)
NoneTypeError == Line(<< W("NoneType", 8), W("has", 3), W("no", 2),
                         W("attribute", 9) >>)

\* The error message taken without looking at the "message" field.
ErrorMessage_Unknown(resp) == UnknownError

\* error_data.get("message", "Unknown error")
ErrorMessage(resp) ==
    IF resp.message = None THEN UnknownError ELSE resp.message[1]

\* f"API Error ({response.status_code}): {error_message}"
ApiErrorText(status_code, error_message) ==
    Prefixed(<< W("API", 3), W("Error", 5), StatusWord(status_code) >>,
             error_message)

Return(value) == [raised |-> FALSE, value |-> value, error |-> EmptyStr]
Raise(error) == [raised |-> TRUE, value |-> << >>, error |-> error]

\* The body shared by get_contents, get_content and get_comments: the JSON of
\* a 200 response, and an exception carrying str(e) otherwise.
Fetch(resp) ==
    IF ~resp.conn THEN Raise(ConnectionError)
    ELSE IF ~resp.json THEN Raise(JSONDecodeError)
    ELSE IF resp.status_code # HTTP_OK
         THEN Raise(ApiErrorText(resp.status_code, ErrorMessage(resp)))
         ELSE Return(resp.data)

get_contents(page, per_page, strategy, resp) == Fetch(resp)
get_user_contents(username, page, per_page, strategy, resp) == Fetch(resp)
get_content(username, slug, resp) == Fetch(resp)
get_comments(username, slug, resp) == Fetch(resp)

\* What login leaves behind: whether it raised, its return value and the
\* stored token.
LoginResult(raised, value, tok) == [raised |-> raised, value |-> value, token |-> tok]

\* login forgetting the stored token when the status is not 200.
login_DropsToken(email, password, resp, tok) ==
    IF ~resp.conn THEN LoginResult(TRUE, FALSE, tok)
    ELSE IF resp.status_code = HTTP_OK
         THEN IF ~resp.json THEN LoginResult(TRUE, FALSE, tok)
              ELSE LoginResult(FALSE, TRUE, resp.data.token)
         ELSE LoginResult(FALSE, FALSE, None)

\* login as a function of the server's answer and the stored token tok:
\* response.json().get("token") is None when the body has no token field.
login(email, password, resp, tok) ==
    IF ~resp.conn THEN LoginResult(TRUE, FALSE, tok)
    ELSE IF resp.status_code = HTTP_OK
         THEN IF ~resp.json THEN LoginResult(TRUE, FALSE, tok)
              ELSE LoginResult(FALSE, TRUE, resp.data.token)
         ELSE LoginResult(FALSE, FALSE, tok)

\* --------------------------------------------------- what the server sends
Boom == Line(<< W("boom", 4) >>)
CreatedAt == W("2024-05-01T10:00:00.000Z", 24)

\* A feed item; item 0 carries a null title, which wrap_text cannot wrap.
Item(i) ==
    [owner_username |-> i, slug |-> i,
     title |-> IF i = 0 THEN None
               ELSE Some(Line(<< W("Post", 4), Num("#", 2, i) >>))]

ItemIds == 1 .. MaxFeedLen

\* The lists the server may send for a feed page: well-formed items in the
\* server's order (increasing id), MaxFeedLen long at most, and one list whose
\* second item has the null title.
RECURSIVE FeedListsOf(_)
Longer(shorter, n) ==
    shorter \cup { Append(l, Item(i)) :
                     l \in { s \in shorter : Len(s) = n - 1 }, i \in ItemIds }

FeedListsOf(n) == IF n = 0 THEN { << >> } ELSE Longer(FeedListsOf(n - 1), n)

Increasing(l) == \A a \in 1 .. Len(l) - 1 : l[a].slug < l[a + 1].slug

FeedLists ==
    { l \in FeedListsOf(MaxFeedLen) : Increasing(l) } \cup { << Item(1), Item(0) >> }

ErrorResponses ==
    { Response(FALSE, 0, None, << >>),
      Response(TRUE, 500, Some(Boom), << >>) }

FeedResponses ==
    { Response(TRUE, HTTP_OK, None, l) : l \in FeedLists } \cup ErrorResponses

\* Article bodies: null, empty, and a single unbroken token of LongBodyLen
\* characters, which wraps to more lines than one viewport holds.
LongBodyLen == 1400
Bodies == { None, Some(EmptyStr), Some(Line(<< W("x", LongBodyLen) >>)) }

Article(username, slug, body) ==
    [owner_username |-> username, slug |-> slug,
     title |-> Line(<< W("Post", 4), Num("#", 2, slug) >>),
     created_at |-> CreatedAt, body |-> body]

ArticleResponses(username, slug) ==
    { Response(TRUE, HTTP_OK, None, Article(username, slug, b)) : b \in Bodies }
      \cup ErrorResponses

Comment(i, body) == [owner_username |-> i, created_at |-> CreatedAt, body |-> body]

CommentLists ==
    { << >>,
      << Comment(1, Some(Line(<< W("nice", 4) >>))) >>,
      << Comment(1, Some(Line(<< W("nice", 4) >>))), Comment(2, None) >> }

CommentsResponses ==
    { Response(TRUE, HTTP_OK, None, l) : l \in CommentLists } \cup ErrorResponses

\* ------------------------------------------------------------- TabNewsUI
VARIABLES
    pc,                   \* "init" before run(), "running", "crashed", "exited"
    view_mode,            \* "feed", "content" or "comments"
    current_page,         \* the feed page number
    selected_index,       \* the feed selection index
    contents,             \* the feed list
    current_content,      \* None or Some(article)
    content_pages,        \* the article's rendered pages
    current_content_page, \* the article page index
    feed_control,         \* the text of the feed buffer
    content_control,      \* the text of the article buffer
    comments_control,     \* the text of the comments buffer
    api_call,             \* history: the API call the last handler made
    last_key              \* history: the key of the last handler ("run" for run())

\* TabNewsAPI and the functions called on their own.
VARIABLES
    token,                \* TabNewsAPI.token: None or Some(token)
    invoked               \* history: the last direct call, its arguments and result

vars == << pc, view_mode, current_page, selected_index, contents,
           current_content, content_pages, current_content_page,
           feed_control, content_control, comments_control, api_call,
           last_key, token, invoked >>

\* No direct call: the controller never logs in and calls the client and the
\* text functions only from inside its handlers.
NotInvoked == [op |-> "none"]
Client == << token, invoked >>

current_strategy == "relevant"
WrapWidth == terminal_width - WrapMargin
PageHeight == terminal_height - PageMargin

Max(a, b) == IF a >= b THEN a ELSE b
Min(a, b) == IF a <= b THEN a ELSE b

\* Python's seq[i]: a negative i counts from the end, and an i outside
\* -len(seq) .. len(seq)-1 raises IndexError.
IndexOk(seq, i) == -Len(seq) <= i /\ i < Len(seq)
PyIndex(seq, i) == IF i >= 0 THEN seq[i + 1] ELSE seq[Len(seq) + i + 1]

\* The API call a handler made, for the history.
NoCall == [op |-> "none", page |-> 0, username |-> 0, slug |-> 0,
           raised |-> FALSE, error |-> EmptyStr]
FeedCall(page, r) ==
    [op |-> "get_contents", page |-> page, username |-> 0, slug |-> 0,
     raised |-> r.raised, error |-> r.error]
ItemCall(op, username, slug, r) ==
    [op |-> op, page |-> 0, username |-> username, slug |-> slug,
     raised |-> r.raised, error |-> r.error]

\* ---------------------------------------------------------- update_feed
PageHeader(page) == Line(<< W("[page]Page", 10), Num("#[/page]", 8, page) >>)
FeedErrorTitle == Lit("[title]Error fetching content[/title]", 37)
FeedErrorHint == Lit("Try again later or change page.", 31)
Arrow == W("->", 1)
Pad == W("..", 1)

\* The for loop of update_feed over the fetched list, i counting from 0; it
\* stops at the first item whose title cannot be wrapped.
RECURSIVE FeedLoop(_, _, _, _)
FeedLoop(list, i, selected, feed_text) ==
    IF i >= Len(list) THEN [raised |-> FALSE, feed_text |-> feed_text,
                            error |-> EmptyStr]
    ELSE LET content == list[i + 1]
         IN  IF content.title = None
             THEN [raised |-> TRUE, feed_text |-> feed_text,
                   error |-> NoneTypeError]
             ELSE FeedLoop(list, i + 1, selected,
                    feed_text \o
                    << Prefixed(<< IF i = selected THEN Arrow ELSE Pad >>,
                                wrap_text(content.title[1], WrapWidth)),
                       Line(<< W("by", 2), Num("user", 4, content.owner_username) >>),
                       EmptyStr >>)

\* The error block without the wrapped error message.
FeedErrorBlock_NoMessage(error) ==
    << FeedErrorTitle, EmptyStr, EmptyStr, FeedErrorHint >>

FeedErrorBlock(error) ==
    << FeedErrorTitle, EmptyStr, wrap_text(error, WrapWidth), EmptyStr,
       FeedErrorHint >>

\* The try block of update_feed: the API call, then the loop.
FeedTry(r, page, selected) ==
    IF r.raised
    THEN [raised |-> TRUE, feed_text |-> << PageHeader(page), EmptyStr >>,
          error |-> r.error]
    ELSE FeedLoop(r.value, 0, selected, << PageHeader(page), EmptyStr >>)

\* What update_feed leaves behind: the feed list and the feed text.
FeedResult(r, tried, page) ==
    [contents |-> IF tried.raised THEN << >> ELSE r.value,
     text |-> Join(IF tried.raised
                   THEN tried.feed_text \o FeedErrorBlock(tried.error)
                   ELSE tried.feed_text),
     call |-> FeedCall(page, r)]

FeedFetched(r, page, selected) == FeedResult(r, FeedTry(r, page, selected), page)

\* The body of update_feed as a function of the state it reads and the
\* server's answer.
RenderFeed(page, selected, resp) ==
    FeedFetched(get_contents(page, PerPage, current_strategy, resp), page, selected)

\* update_feed without line 313: the article buffer is not cleared.
SetFeed_KeepArticleBuffer(f) ==
    /\ contents' = f.contents
    /\ feed_control' = f.text
    /\ content_control' = content_control
    /\ comments_control' = EmptyStr
    /\ api_call' = f.call

SetFeed(f) ==
    /\ contents' = f.contents
    /\ feed_control' = f.text
    /\ content_control' = EmptyStr
    /\ comments_control' = EmptyStr
    /\ api_call' = f.call

\* update_feed, run with the page number and selection the handler has just
\* set (the primed values).
update_feed(resp) == SetFeed(RenderFeed(current_page', selected_index', resp))

\* ------------------------------------------- prepare_content_pages and co
Separator == Lit("[separator]---[/separator]", WrapWidth + 23)

ContentPage(content, title, page, i, n) ==
    Join(<< Prefixed(<< W("[title]", 0) >>, title),
            Line(<< W("[author]by", 10), Num("user", 4, content.owner_username),
                    W("|", 1), content.created_at >>),
            EmptyStr, Separator, EmptyStr, page, EmptyStr,
            Line(<< W("[page_number]Page", 17), Num("#", 1, i + 1),
                    W("of", 2), Num("#", 1, n) >>) >>)

BuildPages(content, title, body_pages) ==
    [i \in 1 .. Len(body_pages) |->
       ContentPage(content, title, body_pages[i], i - 1, Len(body_pages))]

PreparePages(content, pages) ==
    IF content.body = None
    THEN [raised |-> TRUE, content_pages |-> pages]
    ELSE [raised |-> FALSE,
          content_pages |->
            BuildPages(content, wrap_text(content.title, WrapWidth),
                       split_into_pages(content.body[1], WrapWidth, PageHeight))]

\* prepare_content_pages: the new page list, or the exception raised before
\* the list is touched (a null body cannot be wrapped).
prepare_content_pages(cc, pages) ==
    IF cc = None THEN [raised |-> FALSE, content_pages |-> pages]
    ELSE PreparePages(cc[1], pages)

\* update_content_view without line 372: the comments buffer is not cleared.
update_content_view_KeepComments(pages, page_index, old_content, old_comments) ==
    IF pages = << >>
    THEN [raised |-> FALSE, content |-> old_content, comments |-> old_comments]
    ELSE IF ~IndexOk(pages, page_index)
         THEN [raised |-> TRUE, content |-> old_content, comments |-> old_comments]
         ELSE [raised |-> FALSE, content |-> PyIndex(pages, page_index),
               comments |-> old_comments]

\* update_content_view on a page list and page index: what it leaves in the
\* article and comments buffers, or the IndexError of the subscript.
update_content_view(pages, page_index, old_content, old_comments) ==
    IF pages = << >>
    THEN [raised |-> FALSE, content |-> old_content, comments |-> old_comments]
    ELSE IF ~IndexOk(pages, page_index)
         THEN [raised |-> TRUE, content |-> old_content, comments |-> old_comments]
         ELSE [raised |-> FALSE, content |-> PyIndex(pages, page_index),
               comments |-> EmptyStr]

ContentErrorPage(error) ==
    Join(<< Lit("[title]Error loading content[/title]", 36),
            EmptyStr, wrap_text(error, WrapWidth), EmptyStr,
            Lit("Press Esc to go back to the feed.", 33) >>)

ShowError(r, prep) ==
    IF r.raised THEN r.error
    ELSE IF prep.raised THEN NoneTypeError ELSE IndexError

Shown(cc, pages, u, call) ==
    [current_content |-> cc, content_pages |-> pages, content |-> u.content,
     comments |-> u.comments, call |-> call]

\* The except block of show_content: the page list becomes the error page.
ShowFailed(cc, page, call) ==
    Shown(cc, << page >>,
          update_content_view(<< page >>, 0, content_control, comments_control),
          call)

\* The try block of show_content after prepare_content_pages.
ShowViewed(r, cc, prep, u, call) ==
    IF prep.raised \/ u.raised
    THEN ShowFailed(cc, ContentErrorPage(ShowError(r, prep)), call)
    ELSE Shown(cc, prep.content_pages, u, call)

ShowPrepared(r, cc, prep, call) ==
    ShowViewed(r, cc, prep,
               update_content_view(prep.content_pages, 0, content_control,
                                   comments_control),
               call)

ShowFetched(r, call) ==
    IF r.raised
    THEN ShowFailed(current_content, ContentErrorPage(r.error), call)
    ELSE ShowPrepared(r, Some(r.value),
                      prepare_content_pages(Some(r.value), content_pages), call)

\* show_content as a function of the chosen feed item and the server's answer.
ShowContent(content, r) ==
    ShowFetched(r, ItemCall("get_content", content.owner_username, content.slug, r))

SetContent(s) ==
    /\ view_mode' = "content"
    /\ current_content_page' = 0
    /\ current_content' = s.current_content
    /\ content_pages' = s.content_pages
    /\ content_control' = s.content
    /\ comments_control' = s.comments
    /\ api_call' = s.call
    /\ UNCHANGED << pc, current_page, selected_index, contents, feed_control >>

show_content(content, resp) ==
    SetContent(ShowContent(content,
                 get_content(content.owner_username, content.slug, resp)))

\* ---------------------------------------------------------- show_comments
CommentsErrorText(error) ==
    << Lit("[title]Error loading comments[/title]", 37),
       EmptyStr, wrap_text(error, WrapWidth), EmptyStr,
       Lit("Press Esc to go back to the content.", 36) >>

RECURSIVE CommentsLoop(_, _)
CommentsLoop(list, comments_text) ==
    IF list = << >> THEN [raised |-> FALSE, comments_text |-> comments_text]
    ELSE LET comment == Head(list)
         IN  IF comment.body = None
             THEN [raised |-> TRUE, comments_text |-> comments_text]
             ELSE CommentsLoop(Tail(list),
                    comments_text \o
                    << Line(<< Num("[author]user", 12, comment.owner_username),
                               W("|", 1), comment.created_at >>),
                       EmptyStr, wrap_text(comment.body[1], WrapWidth), EmptyStr,
                       Separator, EmptyStr >>)

CommentsTry(r) ==
    IF r.raised THEN [raised |-> TRUE, comments_text |-> << >>]
    ELSE CommentsLoop(r.value, << >>)

CommentsText(r, tried) ==
    Join(IF tried.raised
         THEN CommentsErrorText(IF r.raised THEN r.error ELSE NoneTypeError)
         ELSE tried.comments_text)

CommentsFetched(content, r) ==
    [text |-> CommentsText(r, CommentsTry(r)),
     call |-> ItemCall("get_comments", content.owner_username, content.slug, r)]

\* The text show_comments builds for the open article and the server's answer.
RenderComments(content, resp) ==
    CommentsFetched(content,
                    get_comments(content.owner_username, content.slug, resp))

\* show_comments without line 411: the article buffer is not cleared.
SetComments_KeepArticle(c) ==
    /\ view_mode' = "comments"
    /\ comments_control' = c.text
    /\ content_control' = content_control
    /\ api_call' = c.call
    /\ UNCHANGED << pc, current_page, selected_index, contents,
                    current_content, content_pages, current_content_page,
                    feed_control >>

SetComments(c) ==
    /\ view_mode' = "comments"
    /\ comments_control' = c.text
    /\ content_control' = EmptyStr
    /\ api_call' = c.call
    /\ UNCHANGED << pc, current_page, selected_index, contents,
                    current_content, content_pages, current_content_page,
                    feed_control >>

\* show_comments without its guard's effect on an open article: the fetch is
\* skipped whenever the open article has no body.
show_comments_NeedsBody(resp) ==
    IF current_content = None \/ current_content[1].body = None
    THEN /\ api_call' = NoCall
         /\ UNCHANGED << pc, view_mode, current_page, selected_index, contents,
                         current_content, content_pages, current_content_page,
                         feed_control, content_control, comments_control >>
    ELSE SetComments(RenderComments(current_content[1], resp))

show_comments(resp) ==
    IF current_content = None
    THEN /\ api_call' = NoCall
         /\ UNCHANGED << pc, view_mode, current_page, selected_index, contents,
                         current_content, content_pages, current_content_page,
                         feed_control, content_control, comments_control >>
    ELSE SetComments(RenderComments(current_content[1], resp))

\* ------------------------------------------------------------- handlers
\* What a handler leaves alone.
FeedFrame == << pc, current_content, content_pages, current_content_page >>
ArticleFrame == << view_mode, current_page, selected_index, contents,
                   current_content, content_pages, feed_control >>
Program == << view_mode, current_page, selected_index, contents,
              current_content, content_pages, current_content_page,
              feed_control, content_control, comments_control >>

\* The handler does nothing but event.app.invalidate().
Ignore == api_call' = NoCall /\ UNCHANGED << pc, Program >>

\* update_feed() at the end of a handler that has set view_mode, current_page
\* and selected_index.
FeedStep(resp) == update_feed(resp) /\ UNCHANGED FeedFrame

\* update_content_view() at the end of a handler that has set view_mode and
\* current_content_page; an IndexError leaves the handler unhandled.
SetView(u) ==
    /\ pc' = IF u.raised THEN "crashed" ELSE pc
    /\ content_control' = u.content
    /\ comments_control' = u.comments
    /\ api_call' = NoCall

ContentStep ==
    SetView(update_content_view(content_pages, current_content_page',
                                content_control, comments_control))

\* TabNewsUI.__init__: the fields of the controller.
UiInit ==
    /\ pc = "init"
    /\ view_mode = "feed"
    /\ current_page = FirstPage
    /\ selected_index = 0
    /\ contents = << >>
    /\ current_content = None
    /\ content_pages = << >>
    /\ current_content_page = 0
    /\ feed_control = EmptyStr
    /\ content_control = EmptyStr
    /\ comments_control = EmptyStr
    /\ api_call = NoCall
    /\ last_key = "none"

\* The program started without TABNEWS_TOKEN in its environment.
Init ==
    /\ UiInit
    /\ token = None
    /\ invoked = NotInvoked

\* run(): the first update_feed(), then the key loop.
Run ==
    /\ last_key' = "run"
    /\ pc = "init"
    /\ \E resp \in FeedResponses :
         /\ pc' = "running"
         /\ UNCHANGED << view_mode, current_page, selected_index >>
         /\ update_feed(resp)
         /\ UNCHANGED << current_content, content_pages, current_content_page >>

\* The up handler with line 121 written without max(0, ...).
KeyUp_NoFloor ==
    /\ last_key' = "up"
    /\ pc = "running"
    /\ IF view_mode = "feed"
       THEN \E resp \in FeedResponses :
              /\ selected_index' = Max(0, selected_index - 1)
              /\ UNCHANGED << view_mode, current_page >>
              /\ FeedStep(resp)
       ELSE IF view_mode = "content"
       THEN /\ current_content_page' = current_content_page - 1
            /\ ContentStep
            /\ UNCHANGED ArticleFrame
       ELSE Ignore

KeyUp ==
    /\ last_key' = "up"
    /\ pc = "running"
    /\ IF view_mode = "feed"
       THEN \E resp \in FeedResponses :
              /\ selected_index' = Max(0, selected_index - 1)
              /\ UNCHANGED << view_mode, current_page >>
              /\ FeedStep(resp)
       ELSE IF view_mode = "content"
       THEN /\ current_content_page' = Max(0, current_content_page - 1)
            /\ ContentStep
            /\ UNCHANGED ArticleFrame
       ELSE Ignore

\* The down handler with line 131 written without min(len - 1, ...).
KeyDown_NoClamp ==
    /\ last_key' = "down"
    /\ pc = "running"
    /\ IF view_mode = "feed"
       THEN \E resp \in FeedResponses :
              /\ selected_index' = Min(Len(contents) - 1, selected_index + 1)
              /\ UNCHANGED << view_mode, current_page >>
              /\ FeedStep(resp)
       ELSE IF view_mode = "content"
       THEN /\ current_content_page' = current_content_page + 1
            /\ ContentStep
            /\ UNCHANGED ArticleFrame
       ELSE Ignore

KeyDown ==
    /\ last_key' = "down"
    /\ pc = "running"
    /\ IF view_mode = "feed"
       THEN \E resp \in FeedResponses :
              /\ selected_index' = Min(Len(contents) - 1, selected_index + 1)
              /\ UNCHANGED << view_mode, current_page >>
              /\ FeedStep(resp)
       ELSE IF view_mode = "content"
       THEN /\ current_content_page' =
                 Min(Len(content_pages) - 1, current_content_page + 1)
            /\ ContentStep
            /\ UNCHANGED ArticleFrame
       ELSE Ignore

\* The left handler without the test of line 138.
KeyLeft_NoFloor ==
    /\ last_key' = "left"
    /\ pc = "running"
    /\ IF view_mode = "feed"
       THEN \E resp \in FeedResponses :
              /\ current_page' = current_page - 1
              /\ selected_index' = 0
              /\ UNCHANGED view_mode
              /\ FeedStep(resp)
       ELSE Ignore

KeyLeft ==
    /\ last_key' = "left"
    /\ pc = "running"
    /\ IF view_mode = "feed" /\ current_page > 1
       THEN \E resp \in FeedResponses :
              /\ current_page' = current_page - 1
              /\ selected_index' = 0
              /\ UNCHANGED view_mode
              /\ FeedStep(resp)
       ELSE Ignore

\* The code has no highest page; the model stops turning pages at MaxPage.
KeyRight ==
    /\ last_key' = "right"
    /\ pc = "running"
    /\ view_mode = "feed" => current_page < MaxPage
    /\ IF view_mode = "feed"
       THEN \E resp \in FeedResponses :
              /\ current_page' = current_page + 1
              /\ selected_index' = 0
              /\ UNCHANGED view_mode
              /\ FeedStep(resp)
       ELSE Ignore

KeyEnter ==
    /\ last_key' = "enter"
    /\ pc = "running"
    /\ IF view_mode = "feed" /\ contents # << >>
       THEN IF IndexOk(contents, selected_index)
            THEN \E resp \in ArticleResponses(
                             PyIndex(contents, selected_index).owner_username,
                             PyIndex(contents, selected_index).slug) :
                   show_content(PyIndex(contents, selected_index), resp)
            ELSE \* contents[selected_index] raises IndexError in the handler
                 /\ pc' = "crashed"
                 /\ api_call' = NoCall
                 /\ UNCHANGED Program
       ELSE IF view_mode = "content"
       THEN \E resp \in CommentsResponses : show_comments(resp)
       ELSE Ignore

\* The escape handler going back to the first page of the article.
KeyEscape_ResetPage ==
    /\ last_key' = "escape"
    /\ pc = "running"
    /\ IF view_mode = "content"
       THEN \E resp \in FeedResponses :
              /\ view_mode' = "feed"
              /\ UNCHANGED << current_page, selected_index >>
              /\ FeedStep(resp)
       ELSE IF view_mode = "comments"
       THEN /\ view_mode' = "content"
            /\ current_content_page' = 0
            /\ UNCHANGED << current_page, selected_index, contents,
                            current_content, content_pages, feed_control >>
            /\ ContentStep
       ELSE Ignore

\* The escape handler resetting the selection as the page keys do.
KeyEscape_ResetSelection ==
    /\ last_key' = "escape"
    /\ pc = "running"
    /\ IF view_mode = "content"
       THEN \E resp \in FeedResponses :
              /\ view_mode' = "feed"
              /\ selected_index' = 0
              /\ UNCHANGED current_page
              /\ FeedStep(resp)
       ELSE IF view_mode = "comments"
       THEN /\ view_mode' = "content"
            /\ UNCHANGED << current_page, selected_index, contents,
                            current_content, content_pages,
                            current_content_page, feed_control >>
            /\ ContentStep
       ELSE Ignore

KeyEscape ==
    /\ last_key' = "escape"
    /\ pc = "running"
    /\ IF view_mode = "content"
       THEN \E resp \in FeedResponses :
              /\ view_mode' = "feed"
              /\ UNCHANGED << current_page, selected_index >>
              /\ FeedStep(resp)
       ELSE IF view_mode = "comments"
       THEN /\ view_mode' = "content"
            /\ UNCHANGED << current_page, selected_index, contents,
                            current_content, content_pages,
                            current_content_page, feed_control >>
            /\ ContentStep
       ELSE Ignore

\* 'q' calls event.app.exit(): it ends the key loop and touches no field of
\* the controller, so it is not an action of the model.

KeyC ==
    /\ last_key' = "c"
    /\ pc = "running"
    /\ IF view_mode = "content"
       THEN \E resp \in CommentsResponses : show_comments(resp)
       ELSE Ignore

Next ==
    \/ Run /\ UNCHANGED Client
    \/ KeyUp /\ UNCHANGED Client
    \/ KeyDown /\ UNCHANGED Client
    \/ KeyLeft /\ UNCHANGED Client
    \/ KeyRight /\ UNCHANGED Client
    \/ KeyEnter /\ UNCHANGED Client
    \/ KeyEscape /\ UNCHANGED Client
    \/ KeyC /\ UNCHANGED Client

Spec == Init /\ [][Next]_vars

\* ------------------------------------ the render operation run once more
\* The render operation of the current view called again, with no key event:
\* update_feed() in the feed view, update_content_view() in the content view.
Rerender ==
    /\ last_key' = "render"
    /\ pc = "running"
    /\ view_mode \in {"feed", "content"}
    /\ IF view_mode = "feed"
       THEN \E resp \in FeedResponses :
              /\ UNCHANGED << view_mode, current_page, selected_index >>
              /\ FeedStep(resp)
       ELSE /\ UNCHANGED << current_content_page, ArticleFrame >>
            /\ ContentStep
    /\ UNCHANGED Client

RenderNext ==
    \/ Next
    \/ Rerender

SpecRender == Init /\ [][RenderNext]_vars

\* ------------------------------- wrap_text and split_into_pages on their own
\* The fields of the controller, which a direct call of a text function or of
\* the client does not touch.
Controller == << pc, Program, api_call, last_key >>

Tokens == { W("w", n) : n \in 1 .. MaxWordLen }

RECURSIVE WordSeqs(_)
WordSeqs(n) ==
    IF n = 0 THEN { << >> }
    ELSE WordSeqs(n - 1) \cup
         { Append(ws, w) : ws \in { x \in WordSeqs(n - 1) : Len(x) = n - 1 },
                           w \in Tokens }

\* The texts: every token sequence on one line, and the same tokens with a
\* newline after the first one.
Texts ==
    { Line(ws) : ws \in WordSeqs(MaxWords) } \cup
    { << << Head(ws) >>, Tail(ws) >> : ws \in { x \in WordSeqs(MaxWords) : Len(x) >= 2 } }

Widths == 1 .. MaxWidth
Heights == 1 .. MaxHeight

Invoke(op, text, width, height, result) ==
    [op |-> op, text |-> text, width |-> width, height |-> height,
     result |-> result]

\* One direct call on a freshly constructed program.
CallWrapText ==
    \E text \in Texts, width \in Widths :
       /\ invoked = NotInvoked
       /\ invoked' = Invoke("wrap_text", text, width, 0, wrap_text(text, width))
       /\ UNCHANGED << Controller, token >>

CallSplitIntoPages ==
    \E text \in Texts, width \in Widths, height \in Heights :
       /\ invoked = NotInvoked
       /\ invoked' = Invoke("split_into_pages", text, width, height,
                            split_into_pages(text, width, height))
       /\ UNCHANGED << Controller, token >>

TextNext ==
    \/ CallWrapText
    \/ CallSplitIntoPages

SpecText == Init /\ [][TextNext]_vars

\* ------------------------------------------------- TabNewsAPI on its own
EnvToken == "token-of-the-environment"
ServerTokens == { "token-1", "token-2" }

Statuses == { HTTP_OK, 201, 401, 404, 500 }

\* What the server answers to a read: JSON bodies (a list on 200, an object
\* with or without "message" otherwise), bodies that are not JSON, and a
\* transport failure.
ReadResponses ==
    { Response(TRUE, HTTP_OK, None, d) : d \in { << >>, << Item(1) >> } }
      \cup { Response(TRUE, st, m, << >>) :
               st \in Statuses \ { HTTP_OK }, m \in { None, Some(Boom) } }
      \cup { NotJson(st) : st \in Statuses }
      \cup { Response(FALSE, 0, None, << >>) }

LoginResponses ==
    { Response(TRUE, HTTP_OK, None, [token |-> t]) :
        t \in { None } \cup { Some(x) : x \in ServerTokens } }
      \cup { Response(TRUE, st, m, << >>) :
               st \in Statuses \ { HTTP_OK }, m \in { None, Some(Boom) } }
      \cup { NotJson(st) : st \in Statuses }
      \cup { Response(FALSE, 0, None, << >>) }

ReadOps == { "get_contents", "get_user_contents", "get_content", "get_comments" }

Called(op, resp, result) == [op |-> op, resp |-> resp, result |-> result]

\* TabNewsAPI.__init__: the token is the TABNEWS_TOKEN of the environment,
\* None when it is not set.
ApiInit ==
    /\ UiInit
    /\ token \in { None, Some(EnvToken) }
    /\ invoked = NotInvoked

CallGetContents ==
    \E page \in 1 .. MaxPage, resp \in ReadResponses :
       /\ invoked' = Called("get_contents", resp,
                            get_contents(page, PerPage, current_strategy, resp))
       /\ UNCHANGED << Controller, token >>

CallGetUserContents ==
    \E username \in ItemIds, resp \in ReadResponses :
       /\ invoked' = Called("get_user_contents", resp,
                            get_user_contents(username, FirstPage, PerPage,
                                              current_strategy, resp))
       /\ UNCHANGED << Controller, token >>

CallGetContent ==
    \E username \in ItemIds, resp \in ReadResponses :
       /\ invoked' = Called("get_content", resp,
                            get_content(username, username, resp))
       /\ UNCHANGED << Controller, token >>

CallGetComments ==
    \E username \in ItemIds, resp \in ReadResponses :
       /\ invoked' = Called("get_comments", resp,
                            get_comments(username, username, resp))
       /\ UNCHANGED << Controller, token >>

SetLogin(resp, result) ==
    /\ token' = result.token
    /\ invoked' = Called("login", resp, result)
    /\ UNCHANGED Controller

CallLogin ==
    \E resp \in LoginResponses :
       SetLogin(resp, login("a@b.com", "secret", resp, token))

ApiNext ==
    \/ CallGetContents
    \/ CallGetUserContents
    \/ CallGetContent
    \/ CallGetComments
    \/ CallLogin

SpecApi == ApiInit /\ [][ApiNext]_vars

\* ---------------------------------------------------------------- claims
\* words occur next to each other, in order, on the line.
IsInfix(words, line) ==
    \E k \in 0 .. Len(line) - Len(words) :
       SubSeq(line, k + 1, k + Len(words)) = words

\* The one-line string s occurs on some line of text.
ContainsText(text, s) == \E i \in 1 .. Len(text) : IsInfix(s[1], text[i])

\* C1: while the key loop runs, the feed selection index is never negative
\* and, when the feed list is not empty, is at most len(feed) - 1.
C1_SelectionInRange ==
    pc = "running" =>
      /\ selected_index >= 0
      /\ contents # << >> => selected_index <= Len(contents) - 1

\* C2: no key handler ends with an unhandled exception.
C2_NoUnhandledException == pc # "crashed"

\* C3 as stated: at most one of the feed, article and comments buffers is
\* non-empty.
C3_AtMostOneBuffer ==
    /\ ~(feed_control # EmptyStr /\ content_control # EmptyStr)
    /\ ~(feed_control # EmptyStr /\ comments_control # EmptyStr)
    /\ ~(content_control # EmptyStr /\ comments_control # EmptyStr)

\* C3 amended: at most one of the article and comments buffers is non-empty;
\* the feed buffer is never cleared, it keeps the last feed text in every view.
C3_ArticleOrComments ==
    /\ ~(content_control # EmptyStr /\ comments_control # EmptyStr)
    /\ pc # "init" => feed_control # EmptyStr

C3_Witness ==
    /\ view_mode = "comments"
    /\ comments_control # EmptyStr
    /\ feed_control # EmptyStr

\* C4: in the Article and Comments views the article page index is a valid
\* index of the article page list.
C4_PageIndexValid ==
    view_mode \in {"content", "comments"} =>
      /\ 0 <= current_content_page
      /\ current_content_page <= Len(content_pages) - 1

C4_Witness ==
    /\ view_mode = "content"
    /\ last_key = "down"
    /\ Len(content_pages) > 1
    /\ current_content_page = Len(content_pages) - 1

\* C5: every step into or out of the Comments view keeps the article page
\* list and page index, and escape in Comments always moves to Article with
\* the article buffer showing the page at that index.
C5_EscapeFromComments ==
    [][/\ (view_mode = "comments" \/ view_mode' = "comments") =>
            /\ content_pages' = content_pages
            /\ current_content_page' = current_content_page
       /\ (view_mode = "comments" /\ last_key' = "escape") =>
            /\ view_mode' = "content"
            /\ pc' = "running"
            /\ IndexOk(content_pages, current_content_page)
            /\ content_control' = PyIndex(content_pages, current_content_page)
            /\ comments_control' = EmptyStr]_vars

C5_Witness ==
    /\ view_mode = "content"
    /\ last_key = "escape"
    /\ current_content_page > 0

\* C6: enter in Feed on a valid selection i fetches the article of item i,
\* leaves the selection at i and, when the fetch succeeds, moves to Article
\* with at least one page and page index 0; escape pressed next returns to
\* Feed with the selection still i.
C6_EnterThenEscape ==
    [][/\ ( /\ view_mode = "feed"
            /\ last_key' = "enter"
            /\ contents # << >>
            /\ 0 <= selected_index
            /\ selected_index < Len(contents) ) =>
            /\ api_call'.op = "get_content"
            /\ api_call'.username = contents[selected_index + 1].owner_username
            /\ api_call'.slug = contents[selected_index + 1].slug
            /\ selected_index' = selected_index
            /\ ~api_call'.raised =>
                 /\ view_mode' = "content"
                 /\ Len(content_pages') >= 1
                 /\ current_content_page' = 0
       /\ ( /\ last_key = "enter"
            /\ api_call.op = "get_content"
            /\ ~api_call.raised
            /\ last_key' = "escape" ) =>
            /\ view_mode' = "feed"
            /\ selected_index' = selected_index]_vars

C6_Witness ==
    /\ view_mode = "feed"
    /\ last_key = "escape"
    /\ selected_index = 1
    /\ Len(contents) <= 1
    /\ current_content # None

\* The selection index a key sets before it refetches the feed.
C7_SelectionSet(key) ==
    IF key = "up" THEN Max(0, selected_index - 1)
    ELSE IF key = "down" THEN Min(Len(contents) - 1, selected_index + 1)
    ELSE IF key \in {"left", "right"} THEN 0
    ELSE selected_index

\* The page number a key sets before it refetches the feed.
C7_PageSet(key) ==
    IF key = "left" THEN current_page - 1
    ELSE IF key = "right" THEN current_page + 1
    ELSE current_page

\* C7: a step whose feed fetch fails leaves an error block with the error
\* text in the feed buffer and an empty feed list, with the view mode, page
\* number and selection index the key had set.
C7_FeedFetchFailure ==
    [][(api_call'.op = "get_contents" /\ api_call'.raised) =>
         /\ contents' = << >>
         /\ ContainsText(feed_control', FeedErrorTitle)
         /\ ContainsText(feed_control', api_call'.error)
         /\ api_call'.error = ApiErrorText(500, Boom) =>
              ContainsText(feed_control', Boom)
         /\ view_mode' = "feed"
         /\ current_page' = C7_PageSet(last_key')
         /\ api_call'.page = current_page'
         /\ selected_index' = C7_SelectionSet(last_key')]_vars

C7_Witness ==
    /\ api_call.op = "get_contents"
    /\ api_call.raised
    /\ api_call.error = ApiErrorText(500, Boom)
    /\ last_key = "down"
    /\ selected_index = 1
    /\ contents = << >>

\* C8 as stated: enter and c in Article always fetch the comments and move
\* to Comments.
C8_CommentsKeyUnguarded ==
    [][(view_mode = "content" /\ last_key' \in {"enter", "c"}) =>
         /\ view_mode' = "comments"
         /\ api_call'.op = "get_comments"]_vars

\* C8 amended: enter and c in Article fetch the comments of the loaded
\* article and move to Comments when an article is loaded; when none is
\* (the only article fetch so far failed) they change nothing and fetch
\* nothing.
C8_CommentsKeyGuarded ==
    [][(view_mode = "content" /\ last_key' \in {"enter", "c"}) =>
         IF current_content # None
         THEN /\ view_mode' = "comments"
              /\ api_call'.op = "get_comments"
              /\ api_call'.username = current_content[1].owner_username
              /\ api_call'.slug = current_content[1].slug
         ELSE /\ UNCHANGED << pc, Program >>
              /\ api_call' = NoCall]_vars

C8_Witness ==
    /\ view_mode = "content"
    /\ last_key = "c"
    /\ current_content = None

\* C9 as stated: escape in Article moves to Feed and leaves the article page
\* list and the article buffer empty.
C9_EscapeDiscardsPages ==
    [][(view_mode = "content" /\ last_key' = "escape") =>
         /\ view_mode' = "feed"
         /\ content_pages' = << >>
         /\ content_control' = EmptyStr]_vars

\* C9 amended: escape in Article moves to Feed and empties the article
\* buffer, and keeps the article page list, page index and loaded article.
C9_EscapeKeepsPages ==
    [][(view_mode = "content" /\ last_key' = "escape") =>
         /\ view_mode' = "feed"
         /\ content_control' = EmptyStr
         /\ comments_control' = EmptyStr
         /\ content_pages' = content_pages
         /\ current_content_page' = current_content_page
         /\ current_content' = current_content]_vars

C9_Witness ==
    /\ view_mode = "feed"
    /\ last_key = "escape"
    /\ Len(content_pages) > 1

\* C10: escape in Feed, and up in Article at page index 0, change no field
\* of the controller and no buffer, and make no API call.
C10_NoOpKeys ==
    [][( \/ view_mode = "feed" /\ last_key' = "escape"
         \/ view_mode = "content" /\ current_content_page = 0 /\ last_key' = "up" ) =>
         /\ UNCHANGED << pc, Program >>
         /\ api_call' = NoCall]_vars

C10_Witness ==
    /\ view_mode = "content"
    /\ last_key = "up"
    /\ current_content_page = 0
    /\ Len(content_pages) > 1

\* C11: the feed page number is at least 1; left in Feed goes one page back,
\* resets the selection and refetches only above page 1, and changes and
\* fetches nothing at page 1; right in Feed goes one page on, resets the
\* selection and refetches; no key in Article or Comments changes the page
\* number.
C11_PageNumber ==
    [][/\ current_page >= 1
       /\ current_page' >= 1
       /\ (view_mode = "feed" /\ last_key' = "left") =>
            IF current_page > 1
            THEN /\ current_page' = current_page - 1
                 /\ selected_index' = 0
                 /\ api_call'.op = "get_contents"
                 /\ api_call'.page = current_page'
            ELSE /\ UNCHANGED << pc, Program >>
                 /\ api_call' = NoCall
       /\ (view_mode = "feed" /\ last_key' = "right") =>
            /\ current_page' = current_page + 1
            /\ selected_index' = 0
            /\ api_call'.op = "get_contents"
            /\ api_call'.page = current_page'
       /\ view_mode \in {"content", "comments"} =>
            current_page' = current_page]_vars

C11_Witness ==
    /\ last_key = "left"
    /\ current_page = FirstPage
    /\ api_call.op = "get_contents"
    /\ api_call.page = FirstPage

\* ceil(a / b) for b >= 1.
Ceil(a, b) == (a + b - 1) \div b

\* C12: split_into_pages gives ceil(lineCount / height) pages, every page
\* before the last holds height lines and the last one the remainder, between
\* 1 and height lines.
C12_PageCount ==
    invoked.op = "split_into_pages" =>
      LET lineCount == Len(wrap_text(invoked.text, invoked.width))
          n == Len(invoked.result)
      IN  /\ lineCount >= 1
          /\ n = Ceil(lineCount, invoked.height)
          /\ \A i \in 1 .. n - 1 : Len(invoked.result[i]) = invoked.height
          /\ Len(invoked.result[n]) = lineCount - (n - 1) * invoked.height
          /\ Len(invoked.result[n]) >= 1
          /\ Len(invoked.result[n]) <= invoked.height

C12_Witness ==
    /\ invoked.op = "split_into_pages"
    /\ invoked.height = 2
    /\ Len(invoked.result) = 3
    /\ Len(invoked.result[3]) = 1

\* C13: the lines of the pages of split_into_pages, taken in page order, are
\* the wrapped lines of the text.
C13_RoundTrip ==
    invoked.op = "split_into_pages" =>
      Concat(invoked.result) = wrap_text(invoked.text, invoked.width)

C13_Witness ==
    /\ invoked.op = "split_into_pages"
    /\ Len(invoked.result) >= 2
    /\ invoked.height >= 2
    /\ \E i, j \in 1 .. Len(wrap_text(invoked.text, invoked.width)) :
         wrap_text(invoked.text, invoked.width)[i] #
           wrap_text(invoked.text, invoked.width)[j]

\* The tokens of a text, in order.
WordsOf(text) == Concat(text)

C14_ReadContract ==
    [][invoked'.op \in ReadOps =>
         /\ token' = token
         /\ (invoked'.resp.conn /\ invoked'.resp.json) =>
              IF invoked'.resp.status_code = 200
              THEN /\ ~invoked'.result.raised
                   /\ invoked'.result.value = invoked'.resp.data
              ELSE /\ invoked'.result.raised
                   /\ \E k \in 1 .. Len(invoked'.result.error[1]) :
                        /\ invoked'.result.error[1][k].t = "(#):"
                        /\ invoked'.result.error[1][k].v =
                             invoked'.resp.status_code
                   /\ ContainsText(invoked'.result.error,
                                   IF invoked'.resp.message = None
                                   THEN Line(<< W("Unknown", 7), W("error", 5) >>)
                                   ELSE invoked'.resp.message[1])]_vars

C14_Witness ==
    /\ invoked.op = "get_user_contents"
    /\ invoked.resp.json
    /\ invoked.resp.status_code = 404
    /\ invoked.resp.message = None
    /\ invoked.result.raised
    /\ token = Some(EnvToken)

\* C15: login on a 200 response returns true and stores the token of the
\* body; on any other status it returns false, does not raise and leaves the
\* stored token as it was.
C15_Login ==
    [][(invoked'.op = "login" /\ invoked'.resp.conn) =>
         IF invoked'.resp.status_code = 200
         THEN invoked'.resp.json =>
                /\ ~invoked'.result.raised
                /\ invoked'.result.value = TRUE
                /\ token' = invoked'.resp.data.token
         ELSE /\ ~invoked'.result.raised
              /\ invoked'.result.value = FALSE
              /\ token' = token]_vars

C15_Witness ==
    /\ invoked.op = "login"
    /\ invoked.resp.status_code = 401
    /\ invoked.result.value = FALSE
    /\ token \in { Some(x) : x \in ServerTokens }

\* C16: the render operation of the current view, run again right after it
\* has run, leaves the three buffers and the controller as they were.
C16_RenderIdempotent ==
    [][( /\ last_key' = "render"
         /\ view_mode = "feed" => api_call.op = "get_contents" ) =>
         UNCHANGED << pc, Program >>]_vars

\* C18: in Feed, up above index 0 moves the selection one item up and down
\* below the last index moves it one item down; outside those guards the key
\* changes nothing; in every case the feed list, the page number and the view
\* mode are what they were before the key.
C18_UpDownFrame ==
    [][(view_mode = "feed" /\ last_key' \in {"up", "down"}) =>
         /\ contents' = contents
         /\ current_page' = current_page
         /\ view_mode' = view_mode
         /\ IF last_key' = "up" /\ selected_index > 0
            THEN selected_index' = selected_index - 1
            ELSE IF last_key' = "down" /\ selected_index < Len(contents) - 1
            THEN selected_index' = selected_index + 1
            ELSE UNCHANGED << pc, Program >>]_vars

\* C19: a comments fetch that follows the enter that opened an article from
\* the feed is for the item that enter chose.
C19_CommentsOfOpenArticle ==
    [][(api_call.op = "get_content" /\ api_call'.op = "get_comments") =>
         /\ api_call'.username = api_call.username
         /\ api_call'.slug = api_call.slug]_vars

\* C20: in Feed the article and comments buffers are empty; in Article the
\* comments buffer is empty and the article buffer is the page at the page
\* index; in Comments the article buffer is empty.
C20_DeeperBuffersEmpty ==
    /\ view_mode = "feed" =>
         /\ content_control = EmptyStr
         /\ comments_control = EmptyStr
    /\ view_mode = "content" =>
         /\ comments_control = EmptyStr
         /\ IndexOk(content_pages, current_content_page)
         /\ content_control = PyIndex(content_pages, current_content_page)
    /\ view_mode = "comments" => content_control = EmptyStr

C20_Witness ==
    /\ view_mode = "content"
    /\ last_key = "escape"
    /\ api_call = NoCall
    /\ Len(content_pages) > 1
    /\ current_content_page = Len(content_pages) - 1
    /\ content_control # EmptyStr

====
